---- MODULE Spec2Model ----
(***************************************************************************)
(* Model of the role policy table (utils/roleHelper.js, the revision with  *)
(* the superadmin role) and of the Role Management screen                  *)
(* (pages/RoleManagement.jsx, its current revision).                       *)
(***************************************************************************)
EXTENDS Integers, Sequences, FiniteSets, TLC

(***************************************************************************)
(* Bounds                                                                  *)
(***************************************************************************)
\* longest `roles` array handed to hasAnyRole
MaxRoles == 2
\* number of changeUserRole / deleteUser requests one session may issue
MaxRequests == 1

(***************************************************************************)
(* JavaScript values                                                       *)
(***************************************************************************)
\* the value `undefined` (a missing property, or `user?.role` of a nullish user)
Undefined == "<undefined>"
\* the value `null` of a piece of component state
Null == "<null>"

\* ROLES of roleHelper.js
ROLES == [SUPERADMIN |-> "superadmin", ADMIN |-> "admin",
          TEACHER |-> "teacher", STUDENT |-> "student"]

Roles == {ROLES.SUPERADMIN, ROLES.ADMIN, ROLES.TEACHER, ROLES.STUDENT}

\* student < teacher < admin < superadmin
Rank(r) ==
    CASE r = ROLES.STUDENT -> 1
      [] r = ROLES.TEACHER -> 2
      [] r = ROLES.ADMIN -> 3
      [] r = ROLES.SUPERADMIN -> 4

\* role strings outside the enumeration that a user object may carry
UnknownRoles == {"guest", "", "Admin", "SUPERADMIN"}

\* every value the `role` property of a user object can evaluate to
RoleValues == Roles \cup UnknownRoles \cup {Undefined}

\* the `user` argument: null, undefined, or an object with a role property
UserInputs ==
    {[kind |-> "null", role |-> Undefined], [kind |-> "undefined", role |-> Undefined]}
        \cup {[kind |-> "object", role |-> r] : r \in RoleValues}

\* the `roles` argument of hasAnyRole: arrays of at most MaxRoles entries
RoleElems == Roles \cup {"guest", Undefined}

RoleLists == UNION {[1..n -> RoleElems] : n \in 0..MaxRoles}

(***************************************************************************)
(* roleHelper.js                                                           *)
(***************************************************************************)
\* `user?.role`: undefined for a nullish user, the property otherwise
OptRole(user) == IF user.kind \in {"null", "undefined"} THEN Undefined ELSE user.role

\* Array.prototype.includes
Includes(roles, v) == \E i \in 1..Len(roles) : roles[i] = v

hasRole(user, role) == OptRole(user) = role

isSuperAdminMutant(user) == OptRole(user) = ROLES.SUPERADMIN \/ OptRole(user) = ROLES.ADMIN

isSuperAdmin(user) == OptRole(user) = ROLES.SUPERADMIN

isAdminMutant(user) == OptRole(user) # ROLES.TEACHER /\ OptRole(user) # ROLES.STUDENT

isAdmin(user) == OptRole(user) = ROLES.ADMIN \/ OptRole(user) = ROLES.SUPERADMIN

isTeacherOrAdmin(user) ==
    \/ OptRole(user) = ROLES.TEACHER
    \/ OptRole(user) = ROLES.ADMIN
    \/ OptRole(user) = ROLES.SUPERADMIN

isStudent(user) == OptRole(user) = ROLES.STUDENT

hasAnyRoleMutant(user, roles) == Len(roles) = 0 \/ Includes(roles, OptRole(user))

hasAnyRole(user, roles) == Includes(roles, OptRole(user))

canViewStudents(user) == hasAnyRole(user, <<ROLES.ADMIN, ROLES.TEACHER>>)

canCreateStudents(user) == isAdmin(user)

canEditStudents(user) == isAdmin(user)

canDeleteStudents(user) == isAdmin(user)

canViewTeachers(user) == hasAnyRole(user, <<ROLES.ADMIN, ROLES.TEACHER>>)

canManageTeachers(user) == isAdmin(user)

canManageClasses(user) == isAdmin(user)

canManageEnrollments(user) == hasAnyRole(user, <<ROLES.ADMIN, ROLES.TEACHER>>)

canManageUsers(user) == isAdmin(user)

canManageAdmins(user) == isSuperAdmin(user)

canChangeRoles(user) == isSuperAdmin(user)

canDeleteUsers(user) == isSuperAdmin(user)

canViewAnalytics(user) == hasAnyRole(user, <<ROLES.ADMIN, ROLES.TEACHER>>)

canManageSchools(user) == isAdmin(user)

canViewSchools(user) == isTeacherOrAdmin(user)

canViewBranches(user) == isTeacherOrAdmin(user)

canViewClasses(user) == isTeacherOrAdmin(user)

canViewEnrollments(user) == isTeacherOrAdmin(user)

canViewUsers(user) == isAdmin(user)

canViewMessages(user) == TRUE

canViewReports(user) == isTeacherOrAdmin(user)

canViewDashboard(user) == TRUE

\* the exported predicates, by name
PredicateNames ==
    {"hasRoleStudent", "isSuperAdmin", "isAdmin", "isTeacherOrAdmin", "isStudent",
     "canViewStudents", "canCreateStudents", "canEditStudents", "canDeleteStudents",
     "canViewTeachers", "canManageTeachers", "canManageClasses", "canManageEnrollments",
     "canManageUsers", "canManageAdmins", "canChangeRoles", "canDeleteUsers",
     "canViewAnalytics", "canManageSchools", "canViewSchools", "canViewBranches",
     "canViewClasses", "canViewEnrollments", "canViewUsers", "canViewMessages",
     "canViewReports", "canViewDashboard"}

\* the value predicate p returns for `user`
Apply(p, user) ==
    CASE p = "hasRoleStudent" -> hasRole(user, ROLES.STUDENT)
      [] p = "isSuperAdmin" -> isSuperAdmin(user)
      [] p = "isAdmin" -> isAdmin(user)
      [] p = "isTeacherOrAdmin" -> isTeacherOrAdmin(user)
      [] p = "isStudent" -> isStudent(user)
      [] p = "canViewStudents" -> canViewStudents(user)
      [] p = "canCreateStudents" -> canCreateStudents(user)
      [] p = "canEditStudents" -> canEditStudents(user)
      [] p = "canDeleteStudents" -> canDeleteStudents(user)
      [] p = "canViewTeachers" -> canViewTeachers(user)
      [] p = "canManageTeachers" -> canManageTeachers(user)
      [] p = "canManageClasses" -> canManageClasses(user)
      [] p = "canManageEnrollments" -> canManageEnrollments(user)
      [] p = "canManageUsers" -> canManageUsers(user)
      [] p = "canManageAdmins" -> canManageAdmins(user)
      [] p = "canChangeRoles" -> canChangeRoles(user)
      [] p = "canDeleteUsers" -> canDeleteUsers(user)
      [] p = "canViewAnalytics" -> canViewAnalytics(user)
      [] p = "canManageSchools" -> canManageSchools(user)
      [] p = "canViewSchools" -> canViewSchools(user)
      [] p = "canViewBranches" -> canViewBranches(user)
      [] p = "canViewClasses" -> canViewClasses(user)
      [] p = "canViewEnrollments" -> canViewEnrollments(user)
      [] p = "canViewUsers" -> canViewUsers(user)
      [] p = "canViewMessages" -> canViewMessages(user)
      [] p = "canViewReports" -> canViewReports(user)
      [] p = "canViewDashboard" -> canViewDashboard(user)


(***************************************************************************)
(* State                                                                   *)
(***************************************************************************)
VARIABLES
    polUser,      \* the user handed to the predicates of roleHelper.js
    polRoles,     \* the roles array handed to hasAnyRole
    polOut,       \* what the predicates returned for polUser / polRoles
    user,         \* useAuth().user of the Role Management screen
    users,        \* useState([]): the roster, as id -> role (NoRow: no such row)
    loading,      \* useState(true)
    error,        \* useState(null)
    success,      \* useState(null)
    editingUser,  \* useState(null): id of the row being edited (NoId: null); the
                  \* row's edit controls are outside this model, the handlers reset it
    newRole,      \* useState(''), likewise
    server,       \* the backend's user table, id -> role
    inflight,     \* request -> number of its instances awaiting a response
    nReq,         \* number of changeUserRole / deleteUser requests issued so far
    mounted,      \* the mount effects of the screen have run
    last          \* the handler invocation that produced this state (NoCall: none did)

polVars == <<polUser, polRoles, polOut>>

rmVars == <<user, users, loading, error, success, editingUser, newRole,
            server, inflight, nReq, mounted, last>>

VARIABLES
    navUser,          \* useAuth().user of the sidebar and of the route guard
    authLoading,      \* useAuth().loading
    requiredRoles,    \* the requiredRoles prop of RoleBasedRoute (Undefined: not passed)
    lessonPlanRoles,  \* the roles canViewLessonPlans admits
    navLinks,         \* the memoised navLinks of the sidebar
    routeOut,         \* what RoleBasedRoute returned
    childFetched      \* the guarded children were mounted and issued their fetches

navVars == <<navUser, authLoading, requiredRoles, lessonPlanRoles, navLinks,
             routeOut, childFetched>>

VARIABLES
    chatUser,     \* useAuth().user of the chat view, as an account id (NoId: null)
    chat,         \* the useState values of Chat
    view,         \* the values the closures of the last committed render hold
    cleanup,      \* the timers the cleanup of the last polling effect run clears
    timers,       \* the live setInterval timers, each with its fetchConversation closure
    tasks,        \* async call awaiting a response -> number of its instances
    store,        \* the messages the backend holds
    chatMounted,  \* the chat view is mounted
    events,       \* selections, ticks, sends, failures, logouts and unmounts so far
    ev            \* what the step into this state did (NoEvent: nothing observed)

chatVars == <<chatUser, chat, view, cleanup, timers, tasks, store, chatMounted,
              events, ev>>

VARIABLES
    storage,      \* localStorage: the entries 'token' and 'user'
    session,      \* the useState values of AuthProvider: user, loading
    verifying,    \* the tokens of the authAPI.verify() calls awaiting a response
    authMounted,  \* the mount effect of AuthProvider has run
    routes,       \* what the route components returned at their last render
    fault,        \* an exception that escaped its handler ("none": no such)
    authEv        \* the operation of AuthProvider that produced this state

authVars == <<storage, session, verifying, authMounted, routes, fault, authEv>>

VARIABLES
    usUser,       \* useAuth().user of the Users screen
    usUsers,      \* useState([]) of Users: the roster, as id -> role
    usLoading,    \* useState(true) of Users
    usServer,     \* the backend's user table, id -> role
    usInflight,   \* request of the Users screen -> number of its instances awaiting a response
    usSent,       \* number of delete requests the Users screen has issued
    usLast        \* the handleDelete invocation that produced this state

usVars == <<usUser, usUsers, usLoading, usServer, usInflight, usSent, usLast>>

vars == <<polVars, rmVars, navVars, chatVars, authVars, usVars>>

(***************************************************************************)
(* Role policy table: the predicates applied to enumerated inputs          *)
(***************************************************************************)
NoOut == [preds |-> FALSE, caps |-> [p \in PredicateNames |-> FALSE],
          anyDone |-> FALSE, any |-> FALSE]

InitPolicy ==
    /\ polUser \in UserInputs
    /\ polRoles \in RoleLists
    /\ polOut = NoOut

\* every exported predicate is called with polUser
EvalPredicates ==
    /\ ~polOut.preds
    /\ polOut' = [polOut EXCEPT !.preds = TRUE,
                                !.caps = [p \in PredicateNames |-> Apply(p, polUser)]]
    /\ UNCHANGED <<polUser, polRoles>>

\* hasAnyRole(polUser, polRoles) is called
EvalHasAnyRole ==
    /\ ~polOut.anyDone
    /\ polOut' = [polOut EXCEPT !.anyDone = TRUE, !.any = hasAnyRole(polUser, polRoles)]
    /\ UNCHANGED <<polUser, polRoles>>


(***************************************************************************)
(* Role Management screen (RoleManagement.jsx)                             *)
(***************************************************************************)
\* number of accounts of the backend; account 1 is the logged-in user
NumUsers == 2

Ids == 1..NumUsers

\* editingUser = null
NoId == 0

\* no row with that id (users.find returns undefined)
NoRow == "<none>"

\* getRoleDisplayName
getRoleDisplayName(role) ==
    CASE role = ROLES.SUPERADMIN -> "Super Administrator"
      [] role = ROLES.ADMIN -> "Administrator"
      [] role = ROLES.TEACHER -> "Teacher"
      [] role = ROLES.STUDENT -> "Student"
      [] OTHER -> role

\* the messages of setError
ErrAccessDenied ==
    "Access denied. Only Super Administrators, Admins, and Teachers can access role management."

ErrOnlySAChange == "Only Super Administrators can change user roles."

ErrOnlySADelete == "Only Super Administrators can delete users."

ErrOwnRole == "You cannot change your own role. Super Admins cannot demote themselves."

ErrOwnDelete == "You cannot delete your own account."

\* err.message of a rejected request: empty, or the backend's text
ErrMessages == {"", "Request failed"}

\* err.message || fallback
OrElse(msg, fallback) == IF msg = "" THEN fallback ELSE msg

\* the messages of setSuccess
RoleUpdatedMsg(role) ==
    CASE getRoleDisplayName(role) = "Super Administrator" ->
            "User role updated to Super Administrator successfully!"
      [] getRoleDisplayName(role) = "Administrator" ->
            "User role updated to Administrator successfully!"
      [] getRoleDisplayName(role) = "Teacher" ->
            "User role updated to Teacher successfully!"
      [] OTHER -> "User role updated to Student successfully!"

DeletedMsg == "User deleted successfully!"

\* the window.confirm dialogs
ConfirmDelete == "Are you sure you want to delete this user?"

ConfirmChangeSA == "Warning: You are about to change another Super Admin's role"

ConfirmDeleteSA == "WARNING: You are about to DELETE another Super Administrator"

\* who passes the access check of the two mount effects
HasAccess(u) == isTeacherOrAdmin(u)

\* users.find(u => u.id === userId), as the role of the row found
FindRole(roster, userId) == roster[userId]

\* a request on its way: the endpoint and its arguments
Request(op, id, role) == [op |-> op, id |-> id, role |-> role]

\* inflight maps each request awaiting a response to the number of its instances
NoRequests == [q \in {} |-> 0]

Count(pending, q) == IF q \in DOMAIN pending THEN pending[q] ELSE 0

\* one more / one fewer instance of q awaiting its response
Sent(pending, q) ==
    [x \in DOMAIN pending \cup {q} |-> IF x = q THEN Count(pending, q) + 1 ELSE pending[x]]

Answered(pending, q) ==
    IF pending[q] = 1 THEN [x \in DOMAIN pending \ {q} |-> pending[x]]
    ELSE [pending EXCEPT ![q] = @ - 1]

Pending == DOMAIN inflight

NoCall == [op |-> "none", target |-> NoId, role |-> "", rowRole |-> NoRow,
           prompts |-> <<>>, issued |-> FALSE, setError |-> Null,
           rosterKept |-> TRUE, errorKept |-> TRUE, successKept |-> TRUE,
           errorAfter |-> Null, successAfter |-> Null]

\* the other accounts are interchangeable: their initial roles are listed in
\* one order only
Sorted(t) == \A i \in Ids, j \in Ids : (1 < i /\ i < j) => Rank(t[i]) >= Rank(t[j])

InitRM ==
    /\ user \in {[kind |-> "object", id |-> 1, role |-> r] : r \in Roles}
    /\ server \in {t \in [Ids -> Roles] : t[1] = user.role /\ Sorted(t)}
    /\ users = [i \in Ids |-> NoRow]
    /\ loading = TRUE
    /\ error = Null
    /\ success = Null
    /\ editingUser = NoId
    /\ newRole = ""
    /\ inflight = NoRequests
    /\ nReq = 0
    /\ mounted = FALSE
    /\ last = NoCall

\* fetchUsers up to its await: setLoading(true); setError(null); getAllUsers()
FetchUsersStart(others) ==
    /\ loading' = TRUE
    /\ error' = Null
    /\ inflight' = Sent(others, Request("getAllUsers", NoId, ""))

\* the two mount effects, in order: the access check, then the first fetch
MountEffects ==
    /\ ~mounted
    /\ mounted' = TRUE
    /\ IF HasAccess(user)
       THEN FetchUsersStart(inflight)
       ELSE /\ error' = ErrAccessDenied
            /\ loading' = FALSE
            /\ UNCHANGED inflight
    /\ last' = NoCall
    /\ UNCHANGED <<user, users, success, editingUser, newRole, server, nReq>>

\* getAllUsers resolves: setUsers(data); finally setLoading(false)
FetchUsersOk ==
    \E q \in Pending :
        /\ q.op = "getAllUsers"
        /\ inflight' = Answered(inflight, q)
        /\ users' = server
        /\ loading' = FALSE
        /\ last' = NoCall
        /\ UNCHANGED <<user, error, success, editingUser, newRole, server,
                       nReq, mounted>>

\* getAllUsers rejects: setError(err.message || ...); finally setLoading(false)
FetchUsersFail ==
    \E q \in Pending, msg \in ErrMessages :
        /\ q.op = "getAllUsers"
        /\ inflight' = Answered(inflight, q)
        /\ error' = OrElse(msg, "Failed to fetch users")
        /\ loading' = FALSE
        /\ last' = NoCall
        /\ UNCHANGED <<user, users, success, editingUser, newRole, server,
                       nReq, mounted>>


(***************************************************************************)
(* handleRoleChange / handleDeleteUser up to their await.  A decision is   *)
(* what the synchronous part of the handler does: the confirm dialogs it   *)
(* shows (with their answers), whether it reaches setError(null) /         *)
(* setSuccess(null), the error it sets, and whether it issues the request. *)
(***************************************************************************)
Decision(prompts, cleared, err, issue) ==
    [prompts |-> prompts, cleared |-> cleared, error |-> err, issue |-> issue]

Shown(kind, answer) == <<[kind |-> kind, accepted |-> answer]>>

\* handleRoleChange without the own-account check
RoleChangeNoSelfCheck(u, roster, userId, role, answer) ==
    IF ~isSuperAdmin(u) THEN Decision(<<>>, TRUE, ErrOnlySAChange, FALSE)
    ELSE IF FindRole(roster, userId) = "superadmin" /\ userId # u.id
         THEN Decision(Shown(ConfirmChangeSA, answer), TRUE, Null, answer)
    ELSE Decision(<<>>, TRUE, Null, TRUE)

\* handleRoleChange asking no confirmation for a superadmin target
RoleChangeNoConfirm(u, roster, userId, role, answer) ==
    IF ~isSuperAdmin(u) THEN Decision(<<>>, TRUE, ErrOnlySAChange, FALSE)
    ELSE IF userId = u.id /\ role # "superadmin" THEN Decision(<<>>, TRUE, ErrOwnRole, FALSE)
    ELSE Decision(<<>>, TRUE, Null, TRUE)

\* handleRoleChange (lines 386-412)
RoleChangeDecision(u, roster, userId, role, answer) ==
    IF ~isSuperAdmin(u) THEN Decision(<<>>, TRUE, ErrOnlySAChange, FALSE)
    ELSE IF userId = u.id /\ role # "superadmin" THEN Decision(<<>>, TRUE, ErrOwnRole, FALSE)
    ELSE IF FindRole(roster, userId) = "superadmin" /\ userId # u.id
         THEN Decision(Shown(ConfirmChangeSA, answer), TRUE, Null, answer)
    ELSE Decision(<<>>, TRUE, Null, TRUE)

\* handleDeleteUser without the superadmin-only check
DeleteNoSuperAdminCheck(u, roster, userId, answer1, answer2) ==
    IF ~answer1 THEN Decision(Shown(ConfirmDelete, answer1), FALSE, Null, FALSE)
    ELSE IF userId = u.id
         THEN Decision(Shown(ConfirmDelete, answer1), TRUE, ErrOwnDelete, FALSE)
    ELSE IF FindRole(roster, userId) = "superadmin"
         THEN Decision(Shown(ConfirmDelete, answer1) \o Shown(ConfirmDeleteSA, answer2),
                       TRUE, Null, answer2)
    ELSE Decision(Shown(ConfirmDelete, answer1), TRUE, Null, TRUE)

\* handleDeleteUser (lines 423-453)
DeleteDecision(u, roster, userId, answer1, answer2) ==
    IF ~answer1 THEN Decision(Shown(ConfirmDelete, answer1), FALSE, Null, FALSE)
    ELSE IF ~isSuperAdmin(u)
         THEN Decision(Shown(ConfirmDelete, answer1), TRUE, ErrOnlySADelete, FALSE)
    ELSE IF userId = u.id
         THEN Decision(Shown(ConfirmDelete, answer1), TRUE, ErrOwnDelete, FALSE)
    ELSE IF FindRole(roster, userId) = "superadmin"
         THEN Decision(Shown(ConfirmDelete, answer1) \o Shown(ConfirmDeleteSA, answer2),
                       TRUE, Null, answer2)
    ELSE Decision(Shown(ConfirmDelete, answer1), TRUE, Null, TRUE)

\* the state a handler leaves at its return or await, and the record of the call.
\* The handlers are invoked as functions, with any id and role, in any state of
\* the mounted screen: a superset of the calls the rendered buttons can make.
Handle(op, reqOp, userId, role, d) ==
    /\ mounted
    /\ d.issue => nReq < MaxRequests
    /\ error' = IF d.cleared THEN d.error ELSE error
    /\ success' = IF d.cleared THEN Null ELSE success
    /\ IF d.issue
       THEN /\ inflight' = Sent(inflight, Request(reqOp, userId, role))
            /\ nReq' = nReq + 1
       ELSE UNCHANGED <<inflight, nReq>>
    /\ UNCHANGED <<user, users, loading, editingUser, newRole, server, mounted>>
    /\ last' = [op |-> op, target |-> userId, role |-> role,
                rowRole |-> FindRole(users, userId), prompts |-> d.prompts,
                issued |-> d.issue,
                setError |-> IF d.cleared THEN d.error ELSE Null,
                rosterKept |-> (users' = users),
                errorKept |-> (error' = error), successKept |-> (success' = success),
                errorAfter |-> error', successAfter |-> success']

\* the answers a window.confirm can get: drawn only when the dialog is shown
Answers(shown) == IF shown THEN BOOLEAN ELSE {TRUE}

handleRoleChange ==
    \E userId \in Ids, role \in Roles :
        \E answer \in Answers(RoleChangeDecision(user, users, userId, role, TRUE).prompts # <<>>) :
            Handle("handleRoleChange", "changeUserRole", userId, role,
                   RoleChangeDecision(user, users, userId, role, answer))

handleDeleteUser ==
    \E userId \in Ids, answer1 \in BOOLEAN :
        \E answer2 \in Answers(Len(DeleteDecision(user, users, userId, answer1, TRUE).prompts) > 1) :
            Handle("handleDeleteUser", "deleteUser", userId, "",
                   DeleteDecision(user, users, userId, answer1, answer2))

\* changeUserRole resolves: setSuccess, setEditingUser(null), setNewRole(''), fetchUsers()
ChangeRoleOk ==
    \E q \in Pending :
        /\ q.op = "changeUserRole"
        /\ server[q.id] # NoRow
        /\ server' = [server EXCEPT ![q.id] = q.role]
        /\ success' = RoleUpdatedMsg(q.role)
        /\ editingUser' = NoId
        /\ newRole' = ""
        /\ FetchUsersStart(Answered(inflight, q))
        /\ last' = NoCall
        /\ UNCHANGED <<user, users, nReq, mounted>>

\* changeUserRole rejects: setError(err.message || ...)
ChangeRoleFail ==
    \E q \in Pending, msg \in ErrMessages :
        /\ q.op = "changeUserRole"
        /\ inflight' = Answered(inflight, q)
        /\ error' = OrElse(msg, "Failed to change user role")
        /\ last' = NoCall
        /\ UNCHANGED <<user, users, loading, success, editingUser, newRole,
                       server, nReq, mounted>>

\* deleteUser resolves: setSuccess, fetchUsers()
DeleteUserOk ==
    \E q \in Pending :
        /\ q.op = "deleteUser"
        /\ server[q.id] # NoRow
        /\ server' = [server EXCEPT ![q.id] = NoRow]
        /\ success' = DeletedMsg
        /\ FetchUsersStart(Answered(inflight, q))
        /\ last' = NoCall
        /\ UNCHANGED <<user, users, editingUser, newRole, nReq, mounted>>

\* deleteUser rejects: setError(err.message || ...)
DeleteUserFail ==
    \E q \in Pending, msg \in ErrMessages :
        /\ q.op = "deleteUser"
        /\ inflight' = Answered(inflight, q)
        /\ error' = OrElse(msg, "Failed to delete user")
        /\ last' = NoCall
        /\ UNCHANGED <<user, users, loading, success, editingUser, newRole,
                       server, nReq, mounted>>

(***************************************************************************)
(* Sidebar.jsx: the navigation list                                        *)
(***************************************************************************)
\* canViewLessonPlans is imported by Sidebar.jsx from roleHelper but defined
\* in no revision of roleHelper at hand: all that is known of it is that it
\* admits a teacher and no absent or unknown role
LessonPlanPolicies == {rs \in SUBSET Roles : ROLES.TEACHER \in rs}

canViewLessonPlans(u) == OptRole(u) \in lessonPlanRoles

\* `!user`
Absent(u) == u.kind \in {"null", "undefined"}

Link(path, label, canAccess) == [path |-> path, label |-> label, canAccess |-> canAccess]

allLinks(u) ==
    << Link("/", "Dashboard", canViewDashboard(u)),
       Link("/schools", "Schools", canViewSchools(u)),
       Link("/branches", "Branches", canViewBranches(u)),
       Link("/students", "Students", canViewStudents(u)),
       Link("/classes", "Classes", canViewClasses(u)),
       Link("/teachers", "Teachers", canViewTeachers(u)),
       Link("/lesson-plans", "Lesson Plans", canViewLessonPlans(u)),
       Link("/enrollments", "Enrollments", canViewEnrollments(u)),
       Link("/users", "Users", canViewUsers(u)),
       Link("/chat", "Messages", canViewMessages(u)),
       Link("/reports", "Reports", canViewReports(u)),
       Link("/role-management", "Role Management", canChangeRoles(u)) >>

HasAccessTo(link) == link.canAccess

NavLinksNoUserCheck(u) == SelectSeq(allLinks(u), HasAccessTo)

\* the useMemo callback of navLinks
NavLinks(u) == IF Absent(u) THEN <<>> ELSE SelectSeq(allLinks(u), HasAccessTo)

\* the sidebar before its first render
Unrendered == << Link("<unrendered>", "", FALSE) >>

RenderSidebar ==
    /\ navLinks = Unrendered
    /\ navLinks' = NavLinks(navUser)
    /\ UNCHANGED <<navUser, authLoading, requiredRoles, lessonPlanRoles,
                   routeOut, childFetched>>

(***************************************************************************)
(* RoleBasedRoute                                                          *)
(***************************************************************************)
\* the requiredRoles prop: not passed, or an array of roles
NoRequiredRoles == [declared |-> FALSE, roles |-> <<>>]

RequiredRolesInputs ==
    {NoRequiredRoles} \cup {[declared |-> TRUE, roles |-> rs] : rs \in RoleLists}

\* how JSX and Array.prototype.join print a value: nothing for undefined
Printed(v) == IF v = Undefined THEN "" ELSE v

\* requiredRoles.join(', '): the printed elements, in order
Join(roles) == [i \in 1..Len(roles) |-> Printed(roles[i])]

Output(shown, required, role) == [view |-> shown, required |-> required, role |-> role]

NotRendered == Output("unrendered", <<>>, "")

RoleBasedRouteNoRoleCheck(isLoading, u, required) ==
    IF isLoading THEN Output("spinner", <<>>, "")
    ELSE IF Absent(u) THEN Output("login", <<>>, "")
    ELSE Output("children", <<>>, "")

RoleBasedRoute(isLoading, u, required) ==
    IF isLoading THEN Output("spinner", <<>>, "")
    ELSE IF Absent(u) THEN Output("login", <<>>, "")
    ELSE IF required.declared /\ ~hasAnyRole(u, required.roles)
         THEN Output("denied", Join(required.roles), Printed(u.role))
    ELSE Output("children", <<>>, "")

\* the first render of the guard
RenderRoute ==
    /\ routeOut = NotRendered
    /\ routeOut' = RoleBasedRoute(authLoading, navUser, requiredRoles)
    /\ UNCHANGED <<navUser, authLoading, requiredRoles, lessonPlanRoles,
                   navLinks, childFetched>>

\* the session check ends: the context changes and the guard renders again
SessionResolved ==
    /\ routeOut # NotRendered
    /\ authLoading
    /\ authLoading' = FALSE
    /\ routeOut' = RoleBasedRoute(FALSE, navUser, requiredRoles)
    /\ UNCHANGED <<navUser, requiredRoles, lessonPlanRoles, navLinks, childFetched>>

\* the children the guard returned are mounted: their effects fetch their data
MountChildren ==
    /\ routeOut.view = "children"
    /\ ~childFetched
    /\ childFetched' = TRUE
    /\ UNCHANGED <<navUser, authLoading, requiredRoles, lessonPlanRoles,
                   navLinks, routeOut>>

InitNav ==
    /\ navUser \in UserInputs
    /\ authLoading \in BOOLEAN
    /\ requiredRoles \in RequiredRolesInputs
    /\ lessonPlanRoles \in LessonPlanPolicies
    /\ navLinks = Unrendered
    /\ routeOut = NotRendered
    /\ childFetched = FALSE

(***************************************************************************)
(* Chat.jsx: the messaging view                                            *)
(***************************************************************************)
\* number of contact selections, timer ticks, sends, failed requests, logouts
\* and unmounts of one session
MaxEvents == 3

\* the id of the logged-in account
Me == "A"

\* the response of usersAPI.getAll(): every account
AllAccounts == <<"A", "B", "C">>

\* a message of the backend; its text plays no part
Msg(id, from, to, read) == [id |-> id, senderId |-> from, receiverId |-> to, read |-> read]

\* the messages the backend holds when the view is mounted
InitialStores ==
    { {},
      {Msg(1, "B", Me, FALSE), Msg(2, "B", Me, FALSE), Msg(3, "B", Me, TRUE)},
      {Msg(1, "B", Me, FALSE), Msg(2, "C", Me, FALSE), Msg(3, Me, "B", FALSE)} }

\* the response of messagesAPI.getConversation(a, b)
Conversation(msgs, a, b) ==
    {m \in msgs : (m.senderId = a /\ m.receiverId = b) \/ (m.senderId = b /\ m.receiverId = a)}

\* the ids of the messages of a response, in array order
RECURSIVE IdsInOrder(_)
IdsInOrder(data) ==
    IF data = {} THEN <<>>
    ELSE LET first == CHOOSE m \in data : \A o \in data : m.id <= o.id
         IN <<first.id>> \o IdsInOrder(data \ {first})

unreadMessagesAnyRead(data, me) == IdsInOrder({m \in data : m.receiverId = me})

\* data.filter(m => m.receiverId === user.id && !m.read) of fetchConversation
unreadMessages(data, me) == IdsInOrder({m \in data : m.receiverId = me /\ ~m.read})

unreadCountAnyRead(conversation, me) ==
    Cardinality({m \in conversation : m.receiverId = me})

\* conversation.filter(m => m.receiverId === user.id && !m.read).length of
\* fetchUnreadCounts
unreadCount(conversation, me) ==
    Cardinality({m \in conversation : m.receiverId = me /\ ~m.read})

\* the backend after messagesAPI.markAsRead(id) and messagesAPI.create(...)
MarkedRead(msgs, id) == {IF m.id = id THEN [m EXCEPT !.read = TRUE] ELSE m : m \in msgs}

Created(msgs, from, to) == msgs \cup {Msg(Cardinality(msgs) + 1, from, to, FALSE)}

\* what the input box may hold, and String.prototype.trim
Contents == {"", "  ", " hi"}

Trim(str) == IF str = " hi" THEN "hi" ELSE ""

\* unreadCounts and the per-contact responses of a recount, before any entry
NoCounts == [c \in {} |-> 0]

\* the useState values at mount
InitialState ==
    [users |-> <<>>, selectedUser |-> Null, messages |-> {}, newMessage |-> "",
     loading |-> TRUE, sending |-> FALSE, unreadCounts |-> NoCounts]

\* the values a render hands to the closures it creates
Closure(u, st) ==
    [user |-> u, users |-> st.users, selectedUser |-> st.selectedUser,
     newMessage |-> st.newMessage, sending |-> st.sending, loading |-> st.loading]

\* an async call in progress: the values of its closure, its position
\* (phase, todo, idx), what it has fetched and the mark-as-read calls it has
\* issued so far, and what started it
NoTask ==
    [kind |-> "none", me |-> Null, peer |-> Null, contacts |-> <<>>, phase |-> "",
     data |-> {}, todo |-> <<>>, issued |-> {}, idx |-> 0, counts |-> NoCounts,
     fetched |-> NoCounts, content |-> "", origin |-> ""]

\* fetchUsers(), awaiting usersAPI.getAll()
fetchUsers(pending, me) == Sent(pending, [NoTask EXCEPT !.kind = "users", !.me = me])

\* fetchConversation(), past its guard and awaiting getConversation
fetchConversation(pending, me, peer, contacts) ==
    IF peer = Null \/ me = Null THEN pending
    ELSE Sent(pending, [NoTask EXCEPT !.kind = "conv", !.me = me, !.peer = peer,
                                      !.contacts = contacts, !.phase = "get"])

\* fetchUnreadCounts(), past its guard and awaiting the first getConversation;
\* origin and data say which call started it and what that call had fetched
fetchUnreadCounts(pending, me, contacts, origin, peer, data) ==
    IF me = Null \/ Len(contacts) = 0 THEN pending
    ELSE Sent(pending, [NoTask EXCEPT !.kind = "unread", !.me = me, !.contacts = contacts,
                                      !.origin = origin, !.peer = peer, !.data = data])

\* a state update: React drops it once the view is unmounted
SetState(next) == chat' = IF chatMounted THEN next ELSE chat

NoEvent == [kind |-> "none", clos |-> Closure(Null, InitialState), task |-> NoTask, flags |-> {}]

Event(kind, clos, task, flags) == [kind |-> kind, clos |-> clos, task |-> task, flags |-> flags]

InitChat ==
    /\ chatUser = Me
    /\ chat = InitialState
    /\ view = Closure(Me, InitialState)
    /\ cleanup = {}
    /\ timers = {}
    /\ tasks = fetchUsers(NoRequests, Me)
    /\ store \in InitialStores
    /\ chatMounted = TRUE
    /\ events = 0
    /\ ev = NoEvent

\* f with the entry c |-> v added
With(f, c, v) == [x \in DOMAIN f \cup {c} |-> IF x = c THEN v ELSE f[x]]

Elements(list) == {list[i] : i \in 1..Len(list)}

\* the number of async calls in progress
RECURSIVE Total(_)
Total(pending) ==
    IF DOMAIN pending = {} THEN 0
    ELSE LET q == CHOOSE x \in DOMAIN pending : TRUE
         IN pending[q] + Total([x \in DOMAIN pending \ {q} |-> pending[x]])

\* the user and the timers act while at most one call is in progress
Idle == Total(tasks) <= 1

\* no state update awaits its commit. React commits a pending update before
\* the next response or tick is handled; only handleSendMessage is followed
\* on the render before its own update
Committed == ~chatMounted \/ view = Closure(chatUser, chat)

Running(kind) == IF Committed THEN {t \in DOMAIN tasks : t.kind = kind} ELSE {}

PollingEffectNoCleanup(live, previous, created) == live \cup created

\* one run of the polling effect (lines 27-33): the cleanup of the previous
\* run clears its interval, then the body sets the new one
PollingEffect(live, previous, created) == (live \ previous) \cup created

\* a commit: the view renders with the values `new` and the effects whose
\* dependencies changed since the last commit run (lines 17-33), on top of
\* the calls `pending`
Commit(new, pending) ==
    LET userChanged == new.user # view.user
        usersChanged == new.users # view.users
        selectedChanged == new.selectedUser # view.selectedUser
        counts == (usersChanged \/ userChanged) /\ new.user # Null /\ Len(new.users) > 0
        polls == new.selectedUser # Null /\ new.user # Null
        created == IF polls
                   THEN {[me |-> new.user, peer |-> new.selectedUser, contacts |-> new.users]}
                   ELSE {}
        t1 == IF userChanged THEN fetchUsers(pending, new.user) ELSE pending
        t2 == IF counts
              THEN fetchUnreadCounts(t1, new.user, new.users, "effect", Null, {})
              ELSE t1
        t3 == IF (selectedChanged \/ userChanged) /\ polls
              THEN fetchConversation(t2, new.user, new.selectedUser, new.users)
              ELSE t2
    IN  /\ view' = new
        /\ tasks' = t3
        /\ IF selectedChanged \/ userChanged
           THEN timers' = PollingEffect(timers, cleanup, created) /\ cleanup' = created
           ELSE UNCHANGED <<timers, cleanup>>
        /\ ev' = IF usersChanged /\ Len(view.users) = 0
                 THEN Event("loaded", new, NoTask,
                            IF t2 # t1 THEN {"fetchUnreadCounts"} ELSE {})
                 ELSE NoEvent

\* the commit of the updates of a response or of handleSendMessage
Render ==
    /\ chatMounted
    /\ ~Committed
    /\ Commit(Closure(chatUser, chat), tasks)
    /\ UNCHANGED <<chatUser, chat, store, chatMounted, events>>

\* onClick of a contact button: setSelectedUser(u), and its commit
SelectContact ==
    \E c \in Elements(view.users) :
        /\ chatMounted /\ Committed /\ ~view.loading /\ chatUser # Null
        /\ c # chat.selectedUser
        /\ Idle /\ events < MaxEvents
        /\ chat' = [chat EXCEPT !.selectedUser = c]
        /\ Commit(Closure(chatUser, chat'), tasks)
        /\ events' = events + 1
        /\ UNCHANGED <<chatUser, store, chatMounted>>

\* onChange of the input: setNewMessage(e.target.value), and its commit
Type ==
    \E v \in Contents :
        /\ chatMounted /\ Committed /\ ~view.loading /\ chatUser # Null
        /\ view.selectedUser # Null /\ ~view.sending
        /\ tasks = NoRequests
        /\ v # chat.newMessage
        /\ chat' = [chat EXCEPT !.newMessage = v]
        /\ Commit(Closure(chatUser, chat'), tasks)
        /\ UNCHANGED <<chatUser, store, chatMounted, events>>

ReturnsEarlyNoTrim(c) ==
    c.newMessage = "" \/ c.selectedUser = Null \/ c.user = Null \/ c.sending

\* the guard of handleSendMessage (line 94), on the values of its closure
ReturnsEarly(c) ==
    Trim(c.newMessage) = "" \/ c.selectedUser = Null \/ c.user = Null \/ c.sending

\* handleSendMessage of the last committed render, up to its await
handleSendMessage ==
    /\ chatMounted
    /\ IF ReturnsEarly(view)
       THEN UNCHANGED <<chat, tasks, events>>
       ELSE /\ Idle /\ events < MaxEvents
            /\ chat' = [chat EXCEPT !.sending = TRUE]
            /\ tasks' = Sent(tasks, [NoTask EXCEPT !.kind = "send", !.me = view.user,
                                        !.peer = view.selectedUser,
                                        !.contacts = view.users,
                                        !.content = Trim(view.newMessage)])
            /\ events' = events + 1
    /\ ev' = Event("submit", view, NoTask,
                   (IF tasks' # tasks THEN {"issued"} ELSE {})
                     \cup (IF chat' = chat THEN {"kept"} ELSE {}))
    /\ UNCHANGED <<chatUser, view, cleanup, timers, store, chatMounted>>

\* a tick of a live interval: the fetchConversation it was set with runs
Tick ==
    \E t \in timers :
        /\ Committed /\ Idle /\ events < MaxEvents
        /\ tasks' = fetchConversation(tasks, t.me, t.peer, t.contacts)
        /\ events' = events + 1
        /\ ev' = NoEvent
        /\ UNCHANGED <<chatUser, chat, view, cleanup, timers, store, chatMounted>>

\* logout() of the auth context: setUser(null), and its commit in the view
Logout ==
    /\ chatMounted /\ Committed /\ chatUser # Null
    /\ events < MaxEvents
    /\ chatUser' = Null
    /\ Commit(Closure(Null, chat), tasks)
    /\ events' = events + 1
    /\ UNCHANGED <<chat, store, chatMounted>>

\* the view is unmounted: the cleanup of the polling effect runs and the
\* state of the view is discarded
Unmount ==
    /\ chatMounted /\ Committed
    /\ events < MaxEvents
    /\ chatMounted' = FALSE
    /\ timers' = timers \ cleanup
    /\ cleanup' = {}
    /\ chat' = InitialState
    /\ view' = Closure(chatUser, InitialState)
    /\ events' = events + 1
    /\ ev' = NoEvent
    /\ UNCHANGED <<chatUser, tasks, store>>

\* usersAPI.getAll() resolves (lines 41-44, 48)
FetchContactsOk ==
    \E t \in Running("users") :
        /\ SetState([chat EXCEPT !.users = SelectSeq(AllAccounts, LAMBDA id : id # t.me),
                                 !.loading = FALSE])
        /\ tasks' = Answered(tasks, t)
        /\ ev' = NoEvent
        /\ UNCHANGED <<chatUser, view, cleanup, timers, store, chatMounted, events>>

\* usersAPI.getAll() rejects (lines 45-48)
FetchContactsFail ==
    \E t \in Running("users") :
        /\ SetState([chat EXCEPT !.loading = FALSE])
        /\ tasks' = Answered(tasks, t)
        /\ ev' = NoEvent
        /\ events < MaxEvents /\ events' = events + 1
        /\ UNCHANGED <<chatUser, view, cleanup, timers, store, chatMounted>>

\* a fetchConversation whose last mark-as-read call is answered goes on to
\* fetchUnreadCounts (line 67)
CycleDone(pending, t) ==
    fetchUnreadCounts(pending, t.me, t.contacts, "cycle", t.peer, t.data)

\* getConversation of a fetchConversation resolves (lines 56-62): the
\* messages are shown and the first mark-as-read call, if any, is issued
ConversationOk ==
    \E t \in {c \in Running("conv") : c.phase = "get"} :
        LET data == Conversation(store, t.me, t.peer)
            unread == unreadMessages(data, t.me)
            next == [t EXCEPT !.phase = "mark", !.data = data, !.todo = unread,
                              !.issued = IF Len(unread) = 0 THEN {} ELSE {Head(unread)}]
        IN  /\ SetState([chat EXCEPT !.messages = data])
            /\ IF Len(unread) = 0
               THEN /\ tasks' = CycleDone(Answered(tasks, t), next)
                    /\ ev' = Event("cycleDone", NoEvent.clos, next, {"setMessages"})
               ELSE /\ tasks' = Sent(Answered(tasks, t), next)
                    /\ ev' = Event("fetched", NoEvent.clos, next, {"setMessages"})
            /\ UNCHANGED <<chatUser, view, cleanup, timers, store, chatMounted, events>>

\* messagesAPI.markAsRead(msg.id) resolves (lines 63-65): the next call is
\* issued, or the loop ends
MarkAsReadOk ==
    \E t \in {c \in Running("conv") : c.phase = "mark"} :
        LET rest == Tail(t.todo)
            next == [t EXCEPT !.todo = rest,
                              !.issued = IF Len(rest) = 0 THEN @ ELSE @ \cup {Head(rest)}]
        IN  /\ store' = MarkedRead(store, Head(t.todo))
            /\ IF Len(next.todo) = 0
               THEN /\ tasks' = CycleDone(Answered(tasks, t), next)
                    /\ ev' = Event("cycleDone", NoEvent.clos, next, {})
               ELSE /\ tasks' = Sent(Answered(tasks, t), next)
                    /\ ev' = NoEvent
            /\ UNCHANGED <<chatUser, chat, view, cleanup, timers, chatMounted, events>>

\* a catch block that fetches again at once
ConversationFailRetry ==
    \E t \in Running("conv") :
        /\ tasks' = fetchConversation(Answered(tasks, t), t.me, t.peer, t.contacts)
        /\ ev' = Event(IF t.phase = "get" THEN "fetchFailed" ELSE "cycleAborted",
                       NoEvent.clos, t, {})
        /\ events < MaxEvents /\ events' = events + 1
        /\ UNCHANGED <<chatUser, chat, view, cleanup, timers, store, chatMounted>>

\* getConversation or markAsRead of a fetchConversation rejects (lines 68-70)
ConversationFail ==
    \E t \in Running("conv") :
        /\ tasks' = Answered(tasks, t)
        /\ ev' = Event(IF t.phase = "get" THEN "fetchFailed" ELSE "cycleAborted",
                       NoEvent.clos, t, {})
        /\ events < MaxEvents /\ events' = events + 1
        /\ UNCHANGED <<chatUser, chat, view, cleanup, timers, store, chatMounted>>

\* a getConversation of fetchUnreadCounts resolves (lines 78-86): the count
\* of that contact is recorded, and after the last contact the counts are set
UnreadCountOk ==
    \E t \in Running("unread") :
        LET u == t.contacts[t.idx + 1]
            conv == Conversation(store, t.me, u)
            next == [t EXCEPT !.idx = t.idx + 1,
                              !.counts = With(t.counts, u, unreadCount(conv, t.me)),
                              !.fetched = With(t.fetched, u, conv)]
        IN  /\ IF next.idx = Len(t.contacts)
               THEN /\ SetState([chat EXCEPT !.unreadCounts = next.counts])
                    /\ tasks' = Answered(tasks, t)
                    /\ ev' = Event("unreadDone", NoEvent.clos, next, {"setUnreadCounts"})
               ELSE /\ tasks' = Sent(Answered(tasks, t), next)
                    /\ ev' = NoEvent
                    /\ UNCHANGED chat
            /\ UNCHANGED <<chatUser, view, cleanup, timers, store, chatMounted, events>>

\* a getConversation of fetchUnreadCounts rejects (lines 87-89)
UnreadCountFail ==
    \E t \in Running("unread") :
        /\ tasks' = Answered(tasks, t)
        /\ ev' = NoEvent
        /\ events < MaxEvents /\ events' = events + 1
        /\ UNCHANGED <<chatUser, chat, view, cleanup, timers, store, chatMounted>>

\* messagesAPI.create resolves (lines 103-105, 110)
SendOk ==
    \E t \in Running("send") :
        /\ store' = Created(store, t.me, t.peer)
        /\ SetState([chat EXCEPT !.newMessage = "", !.sending = FALSE])
        /\ tasks' = fetchUnreadCounts(
                        fetchConversation(Answered(tasks, t), t.me, t.peer, t.contacts),
                        t.me, t.contacts, "send", t.peer, {})
        /\ ev' = Event("sendDone", NoEvent.clos, t, {"setNewMessage", "setSending"})
        /\ UNCHANGED <<chatUser, view, cleanup, timers, chatMounted, events>>

\* handleSendMessage with setSending(false) in the try block, not in finally
SendFailNoFinally ==
    \E t \in Running("send") :
        /\ tasks' = Answered(tasks, t)
        /\ ev' = Event("sendFailed", NoEvent.clos, t, {"alert"})
        /\ events < MaxEvents /\ events' = events + 1
        /\ UNCHANGED <<chatUser, chat, view, cleanup, timers, store, chatMounted>>

\* messagesAPI.create rejects (lines 106-110)
SendFail ==
    \E t \in Running("send") :
        /\ SetState([chat EXCEPT !.sending = FALSE])
        /\ tasks' = Answered(tasks, t)
        /\ ev' = Event("sendFailed", NoEvent.clos, t, {"alert", "setSending"})
        /\ events < MaxEvents /\ events' = events + 1
        /\ UNCHANGED <<chatUser, view, cleanup, timers, store, chatMounted>>

(***************************************************************************)
(* App.jsx: AuthProvider and the route components                          *)
(***************************************************************************)
\* `null` as the session user
NoUser == [kind |-> "null", role |-> Undefined]

\* the user objects a login or register response carries
Accounts == {[kind |-> "object", role |-> r] : r \in Roles}

\* the tokens a login or register response carries, and a token of an
\* earlier visit
Tokens == {"t1", "t2"}

EarlierToken == "t0"

\* an entry of localStorage: absent, or a string that JSON.parse accepts
\* (with the value it yields) or rejects
NoItem == [present |-> FALSE, parses |-> FALSE, value |-> NoUser]

Unparseable == [present |-> TRUE, parses |-> FALSE, value |-> NoUser]

Text(v) == [present |-> TRUE, parses |-> TRUE, value |-> v]

\* JSON.stringify(userData) as setItem stores it: `undefined` is stored as
\* the string "undefined", which is no JSON text
JSONstringify(u) == IF u.kind = "undefined" THEN Unparseable ELSE Text(u)

\* JSON.parse(storedUser): the value, or a SyntaxError
JSONparse(item) == [threw |-> ~item.parses, value |-> item.value]

NoStorage == [token |-> Null, user |-> NoItem]

\* what localStorage may hold when the application starts: nothing, what a
\* login of an earlier visit left, a user entry that is no JSON text, or
\* one that is the JSON text `null`
StartupStorages ==
    {NoStorage}
        \cup {[token |-> EarlierToken, user |-> i] :
                 i \in {JSONstringify(a) : a \in Accounts} \cup {Unparseable, Text(NoUser)}}
        \cup {[token |-> EarlierToken, user |-> NoItem]}

\* authAPI.logout() (api.js lines 259-262)
authAPIlogout(st) == [token |-> Null, user |-> NoItem]

\* `token && storedUser` of the mount effect and of ProtectedRoute
HasStoredSession(st) == st.token # Null /\ st.user.present

\* isAuthenticated of the context value
isAuthenticated(u) == ~Absent(u)

Placeholder == "spinner"

ProtectedRouteNoLoadingCheck(isLoading, u, st) ==
    IF ~((isAuthenticated(u) /\ ~Absent(u)) \/ HasStoredSession(st)) THEN "to /login"
    ELSE "children"

\* ProtectedRoute (lines 21-43)
ProtectedRoute(isLoading, u, st) ==
    IF isLoading THEN Placeholder
    ELSE IF ~((isAuthenticated(u) /\ ~Absent(u)) \/ HasStoredSession(st)) THEN "to /login"
    ELSE "children"

\* LoginRoute (lines 84-100) and RegisterRoute (lines 103-119)
LoginRoute(isLoading, u) ==
    IF isLoading THEN Placeholder
    ELSE IF isAuthenticated(u) THEN "to /" ELSE "Login"

RegisterRoute(isLoading, u) ==
    IF isLoading THEN Placeholder
    ELSE IF isAuthenticated(u) THEN "to /" ELSE "Register"

\* the requiredRoles of the role-guarded route that is rendered
GuardRoles == [declared |-> TRUE, roles |-> <<ROLES.ADMIN>>]

\* one render of the four route components with the context value of s
RenderRoutes(s, st) ==
    [protected |-> ProtectedRoute(s.loading, s.user, st),
     roleBased |-> RoleBasedRoute(s.loading, s.user, GuardRoles).view,
     login |-> LoginRoute(s.loading, s.user),
     register |-> RegisterRoute(s.loading, s.user)]

\* the useState values of AuthProvider at its first render
InitialSession == [user |-> NoUser, loading |-> TRUE]

\* the state updates of a handler are committed: the context value changes
\* and its consumers render again, unless every update set the value the
\* state already had (a user object is a new value each time)
CommitSession(next, st) ==
    /\ session' = next
    /\ routes' = IF next # session \/ next.user.kind = "object"
                 THEN RenderRoutes(next, st)
                 ELSE routes

NoAuthEvent ==
    [kind |-> "none", user |-> NoUser, token |-> Null,
     storage |-> NoStorage, session |-> InitialSession, verifying |-> {}]

\* an operation, its arguments, and the state it started from
AuthEvent(kind, u, t) ==
    [kind |-> kind, user |-> u, token |-> t,
     storage |-> storage, session |-> session, verifying |-> verifying]

InitAuth ==
    /\ storage \in StartupStorages
    /\ session = InitialSession
    /\ verifying = {}
    /\ authMounted = FALSE
    /\ routes = RenderRoutes(InitialSession, storage)
    /\ fault = "none"
    /\ authEv = NoAuthEvent

MountOutcome(st, u, calls, f) == [storage |-> st, user |-> u, verify |-> calls, fault |-> f]

MountEffectNoCatch(st) ==
    IF HasStoredSession(st)
    THEN IF JSONparse(st.user).threw
         THEN MountOutcome(st, NoUser, {}, "crash")
         ELSE MountOutcome(st, JSONparse(st.user).value, {st.token}, "none")
    ELSE MountOutcome(st, NoUser, {}, "none")

\* the body of the mount effect (lines 153-170): the storage it leaves, the
\* user it sets, and the verify call it starts, with the token verify() reads
MountEffect(st) ==
    IF HasStoredSession(st)
    THEN IF JSONparse(st.user).threw
         THEN MountOutcome(authAPIlogout(st), NoUser, {}, "none")
         ELSE MountOutcome(st, JSONparse(st.user).value, {st.token}, "none")
    ELSE MountOutcome(st, NoUser, {}, "none")

\* the mount effect of AuthProvider runs (lines 152-172)
Startup ==
    /\ ~authMounted
    /\ LET out == MountEffect(storage)
       IN  /\ storage' = out.storage
           /\ verifying' = out.verify
           /\ fault' = out.fault
           /\ CommitSession([user |-> out.user, loading |-> FALSE], out.storage)
    /\ authMounted' = TRUE
    /\ authEv' = AuthEvent("startup", NoUser, Null)

loginNoUserEntry(st, userData, token) == [token |-> token, user |-> st.user]

\* the localStorage writes of login (lines 176-177)
login(st, userData, token) == [token |-> token, user |-> JSONstringify(userData)]

\* login(response.user, response.token), called by the Login or Register
\* page with the response of its request
CallLogin ==
    \E u \in Accounts, t \in Tokens :
        /\ authMounted
        /\ routes.login = "Login" \/ routes.register = "Register"
        /\ storage' = login(storage, u, t)
        /\ CommitSession([session EXCEPT !.user = u], storage')
        /\ authEv' = AuthEvent("login", u, t)
        /\ UNCHANGED <<verifying, authMounted, fault>>

\* logout() of the context value (lines 187-190)
CallLogout ==
    /\ authMounted
    /\ storage' = authAPIlogout(storage)
    /\ CommitSession([session EXCEPT !.user = NoUser], storage')
    /\ authEv' = AuthEvent("logout", NoUser, Null)
    /\ UNCHANGED <<verifying, authMounted, fault>>

\* authAPI.verify() resolves: nothing is chained on it
VerifyOk ==
    \E t \in verifying :
        /\ verifying' = verifying \ {t}
        /\ authEv' = AuthEvent("verified", NoUser, t)
        /\ UNCHANGED <<storage, session, authMounted, routes, fault>>

\* authAPI.verify() rejects: the catch callback (lines 161-165)
VerifyFail ==
    \E t \in verifying :
        /\ verifying' = verifying \ {t}
        /\ storage' = authAPIlogout(storage)
        /\ CommitSession([session EXCEPT !.user = NoUser], storage')
        /\ authEv' = AuthEvent("verifyFailed", NoUser, t)
        /\ UNCHANGED <<authMounted, fault>>

(***************************************************************************)
(* Users.jsx: the Users screen                                             *)
(***************************************************************************)
NoDelete == [op |-> "none", target |-> NoId, rowRole |-> NoRow,
             confirmed |-> FALSE, issued |-> FALSE]

\* the screen at its mount: the mount effect has called fetchUsers (lines 16-18)
InitUsers ==
    /\ usUser \in {[kind |-> "object", id |-> 1, role |-> r] : r \in Roles}
    /\ usServer \in {t \in [Ids -> Roles] : t[1] = usUser.role /\ Sorted(t)}
    /\ usUsers = [i \in Ids |-> NoRow]
    /\ usLoading = TRUE
    /\ usInflight = Sent(NoRequests, Request("getAll", NoId, ""))
    /\ usSent = 0
    /\ usLast = NoDelete

\* the rows whose Edit and Delete buttons are rendered (lines 97-99, 128-163)
DeleteButtons(isLoading, roster) ==
    IF isLoading THEN {} ELSE {i \in DOMAIN roster : roster[i] # NoRow}

\* usersAPI.getAll() resolves (lines 22-23, 27)
UsersFetchOk ==
    \E q \in DOMAIN usInflight :
        /\ q.op = "getAll"
        /\ usInflight' = Answered(usInflight, q)
        /\ usUsers' = usServer
        /\ usLoading' = FALSE
        /\ usLast' = NoDelete
        /\ UNCHANGED <<usUser, usServer, usSent>>

\* usersAPI.getAll() rejects (lines 24-27): an alert, and the roster is kept
UsersFetchFail ==
    \E q \in DOMAIN usInflight :
        /\ q.op = "getAll"
        /\ usInflight' = Answered(usInflight, q)
        /\ usLoading' = FALSE
        /\ usLast' = NoDelete
        /\ UNCHANGED <<usUser, usUsers, usServer, usSent>>

\* handleDelete(id) up to its await (lines 69-72): whether it calls
\* usersAPI.delete(id), given the answer to its window.confirm
DeleteIssued(u, roster, id, answer) == answer

\* onClick of the Delete button of a row (line 158)
handleDelete ==
    \E id \in DeleteButtons(usLoading, usUsers), answer \in BOOLEAN :
        /\ DeleteIssued(usUser, usUsers, id, answer) => usSent < MaxRequests
        /\ IF DeleteIssued(usUser, usUsers, id, answer)
           THEN /\ usInflight' = Sent(usInflight, Request("delete", id, ""))
                /\ usSent' = usSent + 1
           ELSE UNCHANGED <<usInflight, usSent>>
        /\ usLast' = [op |-> "handleDelete", target |-> id, rowRole |-> usUsers[id],
                      confirmed |-> answer,
                      issued |-> DeleteIssued(usUser, usUsers, id, answer)]
        /\ UNCHANGED <<usUser, usUsers, usLoading, usServer>>

\* usersAPI.delete(id) resolves (lines 72-73): fetchUsers() is called
UsersDeleteOk ==
    \E q \in DOMAIN usInflight :
        /\ q.op = "delete"
        /\ usServer[q.id] # NoRow
        /\ usServer' = [usServer EXCEPT ![q.id] = NoRow]
        /\ usInflight' = Sent(Answered(usInflight, q), Request("getAll", NoId, ""))
        /\ usLast' = NoDelete
        /\ UNCHANGED <<usUser, usUsers, usLoading, usSent>>

\* usersAPI.delete(id) rejects (lines 74-76): an alert
UsersDeleteFail ==
    \E q \in DOMAIN usInflight :
        /\ q.op = "delete"
        /\ usInflight' = Answered(usInflight, q)
        /\ usLast' = NoDelete
        /\ UNCHANGED <<usUser, usUsers, usLoading, usServer, usSent>>

(***************************************************************************)
(* Specifications                                                          *)
(***************************************************************************)
\* the Role Management screen before it is mounted, with one fixed session
ParkedRM ==
    /\ user = [kind |-> "object", id |-> 1, role |-> "student"]
    /\ server = [i \in Ids |-> "student"]
    /\ users = [i \in Ids |-> NoRow]
    /\ loading = TRUE /\ error = Null /\ success = Null
    /\ editingUser = NoId /\ newRole = ""
    /\ inflight = NoRequests /\ nReq = 0 /\ mounted = FALSE /\ last = NoCall

\* the policy predicates not being exercised
ParkedPolicy ==
    /\ polUser = [kind |-> "null", role |-> Undefined]
    /\ polRoles = <<>>
    /\ polOut = NoOut

\* the sidebar and the route guard not rendered
ParkedNav ==
    /\ navUser = [kind |-> "null", role |-> Undefined]
    /\ authLoading = TRUE
    /\ requiredRoles = NoRequiredRoles
    /\ lessonPlanRoles = {ROLES.TEACHER}
    /\ navLinks = Unrendered
    /\ routeOut = NotRendered
    /\ childFetched = FALSE

\* the chat view not mounted
ParkedChat ==
    /\ chatUser = Null
    /\ chat = InitialState
    /\ view = Closure(Null, InitialState)
    /\ cleanup = {} /\ timers = {} /\ tasks = NoRequests /\ store = {}
    /\ chatMounted = FALSE /\ events = 0 /\ ev = NoEvent

\* AuthProvider not mounted, with nothing stored
ParkedAuth ==
    /\ storage = NoStorage
    /\ session = InitialSession
    /\ verifying = {}
    /\ authMounted = FALSE
    /\ routes = RenderRoutes(InitialSession, NoStorage)
    /\ fault = "none"
    /\ authEv = NoAuthEvent

\* the Users screen not mounted
ParkedUsers ==
    /\ usUser = [kind |-> "object", id |-> 1, role |-> "student"]
    /\ usUsers = [i \in Ids |-> NoRow]
    /\ usLoading = TRUE
    /\ usServer = [i \in Ids |-> "student"]
    /\ usInflight = NoRequests
    /\ usSent = 0
    /\ usLast = NoDelete

InitP == InitPolicy /\ ParkedRM /\ ParkedNav /\ ParkedChat /\ ParkedAuth /\ ParkedUsers

NextP ==
    \/ (EvalPredicates /\ UNCHANGED <<rmVars, navVars, chatVars, authVars, usVars>>)
    \/ (EvalHasAnyRole /\ UNCHANGED <<rmVars, navVars, chatVars, authVars, usVars>>)

\* the role policy table applied to every enumerated user and roles array
SpecPolicy == InitP /\ [][NextP]_vars

Init == InitRM /\ ParkedPolicy /\ ParkedNav /\ ParkedChat /\ ParkedAuth /\ ParkedUsers

Next ==
    \/ (MountEffects /\ UNCHANGED <<polVars, navVars, chatVars, authVars, usVars>>)
    \/ (FetchUsersOk /\ UNCHANGED <<polVars, navVars, chatVars, authVars, usVars>>)
    \/ (FetchUsersFail /\ UNCHANGED <<polVars, navVars, chatVars, authVars, usVars>>)
    \/ (handleRoleChange /\ UNCHANGED <<polVars, navVars, chatVars, authVars, usVars>>)
    \/ (handleDeleteUser /\ UNCHANGED <<polVars, navVars, chatVars, authVars, usVars>>)
    \/ (ChangeRoleOk /\ UNCHANGED <<polVars, navVars, chatVars, authVars, usVars>>)
    \/ (ChangeRoleFail /\ UNCHANGED <<polVars, navVars, chatVars, authVars, usVars>>)
    \/ (DeleteUserOk /\ UNCHANGED <<polVars, navVars, chatVars, authVars, usVars>>)
    \/ (DeleteUserFail /\ UNCHANGED <<polVars, navVars, chatVars, authVars, usVars>>)

\* the Role Management screen
Spec == Init /\ [][Next]_vars

InitN == InitNav /\ ParkedPolicy /\ ParkedRM /\ ParkedChat /\ ParkedAuth /\ ParkedUsers

NextN ==
    \/ (RenderSidebar /\ UNCHANGED <<polVars, rmVars, chatVars, authVars, usVars>>)
    \/ (RenderRoute /\ UNCHANGED <<polVars, rmVars, chatVars, authVars, usVars>>)
    \/ (SessionResolved /\ UNCHANGED <<polVars, rmVars, chatVars, authVars, usVars>>)
    \/ (MountChildren /\ UNCHANGED <<polVars, rmVars, chatVars, authVars, usVars>>)

\* the sidebar and a role-guarded route, for every session and role set
SpecNav == InitN /\ [][NextN]_vars

InitC == InitChat /\ ParkedPolicy /\ ParkedRM /\ ParkedNav /\ ParkedAuth /\ ParkedUsers

NextC ==
    \/ (Render /\ UNCHANGED <<polVars, rmVars, navVars, authVars, usVars>>)
    \/ (SelectContact /\ UNCHANGED <<polVars, rmVars, navVars, authVars, usVars>>)
    \/ (Type /\ UNCHANGED <<polVars, rmVars, navVars, authVars, usVars>>)
    \/ (handleSendMessage /\ UNCHANGED <<polVars, rmVars, navVars, authVars, usVars>>)
    \/ (Tick /\ UNCHANGED <<polVars, rmVars, navVars, authVars, usVars>>)
    \/ (Logout /\ UNCHANGED <<polVars, rmVars, navVars, authVars, usVars>>)
    \/ (Unmount /\ UNCHANGED <<polVars, rmVars, navVars, authVars, usVars>>)
    \/ (FetchContactsOk /\ UNCHANGED <<polVars, rmVars, navVars, authVars, usVars>>)
    \/ (FetchContactsFail /\ UNCHANGED <<polVars, rmVars, navVars, authVars, usVars>>)
    \/ (ConversationOk /\ UNCHANGED <<polVars, rmVars, navVars, authVars, usVars>>)
    \/ (MarkAsReadOk /\ UNCHANGED <<polVars, rmVars, navVars, authVars, usVars>>)
    \/ (ConversationFail /\ UNCHANGED <<polVars, rmVars, navVars, authVars, usVars>>)
    \/ (UnreadCountOk /\ UNCHANGED <<polVars, rmVars, navVars, authVars, usVars>>)
    \/ (UnreadCountFail /\ UNCHANGED <<polVars, rmVars, navVars, authVars, usVars>>)
    \/ (SendOk /\ UNCHANGED <<polVars, rmVars, navVars, authVars, usVars>>)
    \/ (SendFail /\ UNCHANGED <<polVars, rmVars, navVars, authVars, usVars>>)

\* the chat view from its mount on
SpecChat == InitC /\ [][NextC]_vars

InitA == InitAuth /\ ParkedPolicy /\ ParkedRM /\ ParkedNav /\ ParkedChat /\ ParkedUsers

NextA ==
    \/ (Startup /\ UNCHANGED <<polVars, rmVars, navVars, chatVars, usVars>>)
    \/ (CallLogin /\ UNCHANGED <<polVars, rmVars, navVars, chatVars, usVars>>)
    \/ (CallLogout /\ UNCHANGED <<polVars, rmVars, navVars, chatVars, usVars>>)
    \/ (VerifyOk /\ UNCHANGED <<polVars, rmVars, navVars, chatVars, usVars>>)
    \/ (VerifyFail /\ UNCHANGED <<polVars, rmVars, navVars, chatVars, usVars>>)

\* the session store from the start of the application on
SpecAuth == InitA /\ [][NextA]_vars

InitU == InitUsers /\ ParkedPolicy /\ ParkedRM /\ ParkedNav /\ ParkedChat /\ ParkedAuth

NextU ==
    \/ (UsersFetchOk /\ UNCHANGED <<polVars, rmVars, navVars, chatVars, authVars>>)
    \/ (UsersFetchFail /\ UNCHANGED <<polVars, rmVars, navVars, chatVars, authVars>>)
    \/ (handleDelete /\ UNCHANGED <<polVars, rmVars, navVars, chatVars, authVars>>)
    \/ (UsersDeleteOk /\ UNCHANGED <<polVars, rmVars, navVars, chatVars, authVars>>)
    \/ (UsersDeleteFail /\ UNCHANGED <<polVars, rmVars, navVars, chatVars, authVars>>)

\* the Users screen from its mount on
SpecUsers == InitU /\ [][NextU]_vars



(***************************************************************************)
(* Role policy table: properties                                           *)
(***************************************************************************)
ViewPredicates ==
    {"canViewStudents", "canViewTeachers", "canViewClasses", "canViewEnrollments",
     "canViewSchools", "canViewBranches", "canViewReports"}

ManagePredicates ==
    {"canCreateStudents", "canEditStudents", "canDeleteStudents", "canManageTeachers",
     "canManageClasses", "canManageEnrollments", "canManageSchools", "canViewUsers",
     "canManageUsers"}

SuperOnlyPredicates == {"canChangeRoles", "canDeleteUsers", "canManageAdmins"}

OpenPredicates == {"canViewMessages", "canViewDashboard"}

\* the capability predicates of the policy table
CapabilityPredicates ==
    ViewPredicates \cup ManagePredicates \cup SuperOnlyPredicates \cup OpenPredicates

\* every predicate that depends on the role
GatedPredicates == PredicateNames \ OpenPredicates

HasValidRole == polUser.kind = "object" /\ polUser.role \in Roles

\* C1: each view predicate returns true for a user of role r exactly when r is
\* teacher, admin or superadmin.
C1_ViewPredicates ==
    (polOut.preds /\ HasValidRole) =>
        \A p \in ViewPredicates :
            polOut.caps[p] <=> polUser.role \in {"teacher", "admin", "superadmin"}

\* C2: each management predicate returns true for a user of role r exactly when
\* r is admin or superadmin.
C2_ManagePredicates ==
    (polOut.preds /\ HasValidRole) =>
        \A p \in ManagePredicates :
            polOut.caps[p] <=> polUser.role \in {"admin", "superadmin"}

\* C3: canChangeRoles, canDeleteUsers and canManageAdmins return true exactly
\* for a user whose role is superadmin.
C3_SuperOnly ==
    polOut.preds =>
        \A p \in SuperOnlyPredicates :
            polOut.caps[p] <=> (polUser.kind = "object" /\ polUser.role = "superadmin")

C3_Witness ==
    /\ polOut.preds
    /\ polUser.kind = "object" /\ polUser.role = "superadmin"
    /\ polOut.caps["canChangeRoles"] /\ polOut.caps["canDeleteUsers"]

\* C4: for a null or undefined user every capability predicate returns false,
\* canViewMessages and canViewDashboard included.
C4_AbsentUserDenied ==
    (polOut.preds /\ polUser.kind \in {"null", "undefined"}) =>
        \A p \in CapabilityPredicates : ~polOut.caps[p]

\* C5: for a user object whose role is absent or outside the enumeration every
\* gated predicate returns false (a Boolean: the call completes).
C5_UnknownRoleDenied ==
    (polOut.preds /\ polUser.kind = "object" /\ polUser.role \notin Roles) =>
        \A p \in GatedPredicates : polOut.caps[p] \in BOOLEAN /\ ~polOut.caps[p]

C5_Witness ==
    /\ polOut.preds
    /\ polUser.kind = "object" /\ polUser.role = "guest"
    /\ ~polOut.caps["canManageUsers"] /\ polOut.caps["canViewDashboard"]

\* C6: a capability (other than isStudent) granted to role r is granted to
\* every role above r in student < teacher < admin < superadmin.
C6_Additive ==
    (polOut.preds /\ HasValidRole) =>
        \A p \in CapabilityPredicates, r \in Roles :
            (polOut.caps[p] /\ Rank(r) > Rank(polUser.role)) =>
                Apply(p, [kind |-> "object", role |-> r])

\* C7: hasAnyRole(user, []) is false for every user, and
\* hasAnyRole(user, [user.role]) is true for every user with a valid role.
C7_HasAnyRole ==
    polOut.anyDone =>
        /\ polRoles = <<>> => ~polOut.any
        /\ (HasValidRole /\ polRoles = <<polUser.role>>) => polOut.any

C7_Witness ==
    /\ polOut.anyDone /\ HasValidRole
    /\ polRoles = <<polUser.role>> /\ polOut.any


(***************************************************************************)
(* Role Management: properties of the handler invocation recorded in last  *)
(***************************************************************************)
Invoked(op) == last.op = op

\* the i-th confirm dialog of the invocation was `kind` and got `answer`
Prompted(kind, answer) ==
    \E i \in 1..Len(last.prompts) :
        last.prompts[i].kind = kind /\ last.prompts[i].accepted = answer

\* a superadmin acts on their own account: a role change away from superadmin,
\* or a deletion
SelfAction ==
    /\ isSuperAdmin(user)
    /\ last.target = user.id
    /\ \/ Invoked("handleRoleChange") /\ last.role # "superadmin"
       \/ Invoked("handleDeleteUser")

\* C8 as stated: a superadmin's self role change and self deletion are rejected
\* with an error message and without a request, whatever the dialogs answer.
C8_SelfGuardAsStated ==
    SelfAction => (~last.issued /\ last.setError # Null)

\* C8: a superadmin's self role change and self deletion issue no request,
\* whatever the dialogs answer; the role change sets an error message, and the
\* deletion sets one when its confirmation dialog is accepted and returns
\* without a message when it is declined.
C8_SelfGuard ==
    SelfAction =>
        /\ ~last.issued
        /\ Invoked("handleRoleChange") => last.setError = ErrOwnRole
        /\ (Invoked("handleDeleteUser") /\ Prompted(ConfirmDelete, TRUE)) =>
                last.setError = ErrOwnDelete
        /\ (Invoked("handleDeleteUser") /\ Prompted(ConfirmDelete, FALSE)) =>
                (last.setError = Null /\ last.errorKept /\ last.successKept)

C8_Witness ==
    /\ SelfAction
    /\ Invoked("handleDeleteUser") /\ Prompted(ConfirmDelete, TRUE)
    /\ ~last.issued /\ error = ErrOwnDelete

\* the target of the invocation is a superadmin account, in the backend's table
\* or in the roster the screen holds
TargetIsSuperAdmin ==
    /\ last.target \in Ids
    /\ (server[last.target] = "superadmin" \/ last.rowRole = "superadmin")

\* C9: when the current user is not a superadmin and
\* the target is a superadmin account, handleRoleChange and handleDeleteUser
\* issue no request, and set the superadmin-only error once past the generic
\* confirmation.
C9_PeerSuperAdminGuard ==
    (last.op # "none" /\ ~isSuperAdmin(user) /\ TargetIsSuperAdmin) =>
        /\ ~last.issued
        /\ Invoked("handleRoleChange") => last.setError = ErrOnlySAChange
        /\ (Invoked("handleDeleteUser") /\ Prompted(ConfirmDelete, TRUE)) =>
                last.setError = ErrOnlySADelete

C9_Witness ==
    /\ user.role = "admin" /\ TargetIsSuperAdmin
    /\ last.rowRole = "superadmin"
    /\ Invoked("handleDeleteUser") /\ Prompted(ConfirmDelete, TRUE)
    /\ ~last.issued /\ error = ErrOnlySADelete

\* a superadmin acts on another account whose roster row is a superadmin
OnOtherSuperAdmin ==
    /\ last.op # "none"
    /\ isSuperAdmin(user)
    /\ last.target # user.id
    /\ last.rowRole = "superadmin"

\* the confirm dialog specific to a superadmin target, for the handler invoked
SpecificPrompt == IF Invoked("handleRoleChange") THEN ConfirmChangeSA ELSE ConfirmDeleteSA

\* C10 as stated: on another superadmin the request is issued only after the
\* specific prompt was accepted; declined, no request is issued and roster,
\* error and success are left as they were.
C10_ConfirmAsStated ==
    OnOtherSuperAdmin =>
        /\ last.issued => Prompted(SpecificPrompt, TRUE)
        /\ Prompted(SpecificPrompt, FALSE) =>
                (~last.issued /\ last.rosterKept /\ last.errorKept /\ last.successKept)

\* C10: on another account whose roster row is a
\* superadmin, the request is issued only after the specific prompt was
\* accepted; declined, no request is issued, the roster is left as it was, and
\* error and success are both null.
C10_Confirm ==
    OnOtherSuperAdmin =>
        /\ last.issued => Prompted(SpecificPrompt, TRUE)
        /\ (~Invoked("handleDeleteUser") \/ Prompted(ConfirmDelete, TRUE)) =>
                (Prompted(SpecificPrompt, TRUE) \/ Prompted(SpecificPrompt, FALSE))
        /\ Prompted(SpecificPrompt, FALSE) =>
                /\ ~last.issued /\ last.rosterKept
                /\ last.errorAfter = Null /\ last.successAfter = Null

C10_Witness ==
    /\ OnOtherSuperAdmin
    /\ Invoked("handleRoleChange") /\ Prompted(ConfirmChangeSA, TRUE)
    /\ last.issued
    /\ Count(inflight, Request("changeUserRole", last.target, last.role)) > 0


(***************************************************************************)
(* Role Management: the roster as rendered                                 *)
(***************************************************************************)
\* strings that are searched are sequences of characters
LowerChar(c) ==
    CASE c = "A" -> "a"
      [] c = "B" -> "b"
      [] c = "C" -> "c"
      [] OTHER -> c

\* String.prototype.toLowerCase
toLowerCase(str) == [i \in 1..Len(str) |-> LowerChar(str[i])]

\* String.prototype.includes
StrIncludes(str, sub) ==
    \E k \in 0..(Len(str) - Len(sub)) : \A i \in 1..Len(sub) : str[k + i] = sub[i]

\* u.name and u.email of the account with that id (<<"?">>: the property is missing)
Missing == <<"?">>

NameOf(id) ==
    CASE id = 1 -> <<"A", "l">>
      [] id = 2 -> <<"B", "o">>
      [] OTHER -> Missing

EmailOf(id) ==
    CASE id = 1 -> <<"a", "@", "x">>
      [] id = 2 -> <<"b", "@", "x">>
      [] OTHER -> <<"c", "@", "x">>

\* the values of the role filter select and of the search box
FilterRoles == {"all"} \cup Roles

SearchTerms == {<<>>, <<"a">>, <<"B">>, <<"o", "@">>, <<"z">>}

\* u.name?.toLowerCase().includes(searchTerm.toLowerCase())
FieldMatches(field, searchTerm) ==
    field # Missing /\ StrIncludes(toLowerCase(field), toLowerCase(searchTerm))

\* users.filter(...) of lines 473-479: the ids of the rows kept
filteredUsers(roster, filterRole, searchTerm) ==
    {id \in Ids :
        /\ roster[id] # NoRow
        /\ (filterRole = "all" \/ roster[id] = filterRole)
        /\ (FieldMatches(NameOf(id), searchTerm) \/ FieldMatches(EmailOf(id), searchTerm))}

\* what the component returns (lines 490-509)
RenderRM(u, isLoading) ==
    IF ~HasAccess(u) THEN "denied"
    ELSE IF isLoading THEN "spinner"
    ELSE "roster"

\* the rows on screen for a role filter and a search term
ShownRows(filterRole, searchTerm) ==
    IF RenderRM(user, loading) = "roster"
    THEN filteredUsers(users, filterRole, searchTerm)
    ELSE {}

\* C11: whatever the search term and role filter, an admin is shown only
\* teacher and student rows, a teacher only student rows, and a student is
\* denied the screen with no roster fetched.
C11_RosterScoping ==
    \A f \in FilterRoles, t \in SearchTerms :
        /\ user.role = "admin" =>
                \A id \in ShownRows(f, t) : users[id] \in {"teacher", "student"}
        /\ user.role = "teacher" =>
                \A id \in ShownRows(f, t) : users[id] = "student"
        /\ user.role = "student" =>
                /\ mounted => RenderRM(user, loading) = "denied"
                /\ inflight = NoRequests
                /\ \A id \in Ids : users[id] = NoRow


(***************************************************************************)
(* Role Management: the controls of a roster row                           *)
(***************************************************************************)
\* the controls of the row of account rowId for viewer u with id viewerId;
\* editing is the id of the row whose role select is open (NoId: none)
RowControls(u, viewerId, rowId, editing) ==
    IF editing = rowId THEN {"select", "save", "cancel"}
    ELSE (IF isSuperAdmin(u) THEN {"changeRole"} ELSE {"viewOnly"})
            \cup (IF isSuperAdmin(u) /\ rowId # viewerId THEN {"delete"} ELSE {})

(***************************************************************************)
(* Claims on navigation and route guarding                                 *)
(***************************************************************************)
\* the candidate entries in declaration order, each with its gating capability
Declared ==
    << <<"Dashboard", "canViewDashboard">>, <<"Schools", "canViewSchools">>,
       <<"Branches", "canViewBranches">>, <<"Students", "canViewStudents">>,
       <<"Classes", "canViewClasses">>, <<"Teachers", "canViewTeachers">>,
       <<"Lesson Plans", "canViewLessonPlans">>, <<"Enrollments", "canViewEnrollments">>,
       <<"Users", "canViewUsers">>, <<"Messages", "canViewMessages">>,
       <<"Reports", "canViewReports">>, <<"Role Management", "canChangeRoles">> >>

Granted(i) ==
    IF Declared[i][2] = "canViewLessonPlans"
    THEN canViewLessonPlans(navUser)
    ELSE Apply(Declared[i][2], navUser)

\* the positions in a list of entries at which an entry labelled l stands
PositionsOf(list, l) == {k \in 1..Len(list) : list[k].label = l}

SidebarRendered == navLinks # Unrendered

\* C18: the navigation list holds exactly the declared entries whose gating
\* capability is true for the user, each once and in declaration order, and
\* is empty for an absent user.
C18_NavigationFilter ==
    SidebarRendered =>
        IF Absent(navUser) THEN navLinks = <<>>
        ELSE /\ \A k \in 1..Len(navLinks) :
                    \E i \in 1..Len(Declared) : navLinks[k].label = Declared[i][1]
             /\ \A i \in 1..Len(Declared) :
                    Cardinality(PositionsOf(navLinks, Declared[i][1]))
                        = (IF Granted(i) THEN 1 ELSE 0)
             /\ \A i, j \in 1..Len(Declared) :
                    (i < j /\ Granted(i) /\ Granted(j)) =>
                        \A a \in PositionsOf(navLinks, Declared[i][1]),
                           b \in PositionsOf(navLinks, Declared[j][1]) : a < b

\* an admin's rendered list leaves entries out, an absent user's is empty
C18_Witness ==
    /\ SidebarRendered
    /\ \/ (navUser.kind = "object" /\ navUser.role = ROLES.ADMIN
                /\ Len(navLinks) \in 10..11)
       \/ (navUser.kind = "null" /\ navLinks = <<>>)

Paths(list) == [k \in 1..Len(list) |-> list[k].path]

\* C19: a teacher's sidebar is dashboard, schools, branches, students, classes,
\* teachers, lesson-plans, enrollments, messages, reports and role-management,
\* without users, and no roster row offers a teacher role-change or delete.
C19_TeacherNavigation ==
    (SidebarRendered /\ navUser.kind = "object" /\ navUser.role = ROLES.TEACHER) =>
        /\ Paths(navLinks) = << "/", "/schools", "/branches", "/students", "/classes",
                                "/teachers", "/lesson-plans", "/enrollments", "/chat",
                                "/reports", "/role-management" >>
        /\ \A k \in 1..Len(navLinks) : navLinks[k].path # "/users"
        /\ \A viewerId, rowId \in Ids :
                RowControls(navUser, viewerId, rowId, NoId)
                    \cap {"changeRole", "delete", "select", "save"} = {}

\* the elements of a roles array
Members(roles) == {roles[i] : i \in 1..Len(roles)}

SessionUser == ~authLoading /\ navUser.kind = "object"

\* C20: with the session resolved and a user logged in, a route with a
\* declared role set returns its children only if the user's role is in the
\* set, and otherwise the access-denied state with the required roles and the
\* user's role, in which case the children never fetched anything.
C20_RouteGuard ==
    (SessionUser /\ requiredRoles.declared /\ routeOut # NotRendered) =>
        /\ routeOut.view = "children" => navUser.role \in Members(requiredRoles.roles)
        /\ navUser.role \notin Members(requiredRoles.roles) =>
                /\ routeOut.view = "denied"
                /\ routeOut.required = Join(requiredRoles.roles)
                /\ routeOut.role = Printed(navUser.role)
                /\ ~childFetched

\* a teacher on a route declared for admins is shown the denial
C20_Witness ==
    /\ SessionUser /\ navUser.role = ROLES.TEACHER
    /\ requiredRoles = [declared |-> TRUE, roles |-> <<ROLES.ADMIN, ROLES.SUPERADMIN>>]
    /\ routeOut = Output("denied", <<ROLES.ADMIN, ROLES.SUPERADMIN>>, ROLES.TEACHER)
    /\ ~childFetched


(***************************************************************************)
(* Claims on the chat view                                                 *)
(***************************************************************************)
\* C12: there is exactly one live conversation-fetch timer while the view is
\* mounted with a contact selected and a user logged in, and it is the timer
\* of that contact and user; there is none otherwise, so none after a switch
\* but the new contact's, and none after unmount or logout.
C12_PollingTimers ==
    /\ Cardinality(timers) =
            (IF chatMounted /\ chat.selectedUser # Null /\ chatUser # Null THEN 1 ELSE 0)
    /\ \A t \in timers : t.peer = chat.selectedUser /\ t.me = chatUser

\* after a switch from B to C, while B's first fetch is still awaited, the
\* only timer is C's
C12_Witness ==
    /\ chatMounted /\ chat.selectedUser = "C"
    /\ \E t \in DOMAIN tasks : t.kind = "conv" /\ t.peer = "B"
    /\ timers = {[me |-> Me, peer |-> "C", contacts |-> <<"B", "C">>]}

\* the create requests awaiting their response
CreatesInFlight ==
    LET sends == {t \in DOMAIN tasks : t.kind = "send"}
    IN  Total([t \in sends |-> tasks[t]])

\* C13: submits arriving while a create request is in flight issue no second
\* create request: at most one is ever in flight.
C13_SendGuard == CreatesInFlight <= 1

\* the claim's empty or whitespace-only content
Blank(str) == str \in {"", "  "}

\* C14: handleSendMessage invoked with blank content, or no contact selected,
\* or no user logged in, issues no create call and leaves the state of the
\* view (input, sending flag, messages, unread counts) as it was.
C14_SendValidation ==
    (ev.kind = "submit"
        /\ (Blank(ev.clos.newMessage) \/ ev.clos.selectedUser = Null \/ ev.clos.user = Null))
    => ev.flags = {"kept"}

\* a submit of whitespace with a contact selected and a user logged in
C14_Witness ==
    /\ ev.kind = "submit" /\ ev.clos.newMessage = "  "
    /\ ev.clos.selectedUser = "B" /\ ev.clos.user = Me /\ ~ev.clos.sending
    /\ ev.flags = {"kept"}

\* the messages of a response that `me` received and has not read
Unseen(data, me) == {m \in data : m.receiverId = me /\ m.read = FALSE}

Recounts(origin) == {t \in DOMAIN tasks : t.kind = "unread" /\ t.origin = origin /\ t.idx = 0}

\* C15: when fetchUnreadCounts completes, unreadCounts of every contact of
\* the list is the number of unseen messages in the conversation it fetched
\* for that contact; it is started when the contact list is first loaded and
\* when a conversation fetch / mark-as-read cycle completes.
C15_UnreadCounts ==
    /\ (ev.kind = "unreadDone" /\ chatMounted /\ chatUser # Null) =>
            \A c \in Elements(chat.users) :
                /\ c \in DOMAIN chat.unreadCounts
                /\ chat.unreadCounts[c] = Cardinality(Unseen(ev.task.fetched[c], chatUser))
    /\ (ev.kind = "loaded" /\ ev.clos.user # Null) => Recounts("effect") # {}
    /\ ev.kind = "cycleDone" =>
            \E t \in Recounts("cycle") : t.me = ev.task.me /\ t.contacts = ev.task.contacts

\* three messages from B, two of them unread, count as 2
C15_Witness ==
    /\ ev.kind = "unreadDone" /\ chatMounted /\ chatUser = Me
    /\ Cardinality(ev.task.fetched["B"]) = 3
    /\ chat.unreadCounts["B"] = 2

UnseenIds(t) == {m.id : m \in Unseen(t.data, t.me)}

\* the recount fetched no message of the contact that the cycle had not
NoNewMessage(t) == \A m \in t.fetched[t.peer] : \E d \in t.data : d.id = m.id

RecountAfterCycle ==
    (ev.kind = "unreadDone" /\ ev.task.origin = "cycle" /\ chatMounted
        /\ NoNewMessage(ev.task))
    => chat.unreadCounts[ev.task.peer] = 0

\* C16 as stated: every successful conversation fetch issues a mark-as-read
\* call for exactly the unseen messages it fetched, and the recount of a
\* completed cycle gives 0 for the contact when no new message has arrived.
C16_MarkAsReadAsStated ==
    /\ ev.kind \in {"cycleDone", "cycleAborted"} => ev.task.issued = UnseenIds(ev.task)
    /\ RecountAfterCycle

\* C16: a successful conversation fetch issues mark-as-read calls for unseen
\* messages it fetched only, one after the other in array order: for all of
\* them when every call succeeds, and for none after a call that fails; the
\* recount of a completed cycle gives 0 for the contact when no new message
\* has arrived.
C16_MarkAsRead ==
    /\ ev.kind = "cycleDone" => ev.task.issued = UnseenIds(ev.task)
    /\ ev.kind = "cycleAborted" =>
            ev.task.issued = {i \in UnseenIds(ev.task) : i <= Head(ev.task.todo)}
    /\ ev.kind = "fetched" =>
            ev.task.issued = {i \in UnseenIds(ev.task) : \A j \in UnseenIds(ev.task) : i <= j}
    /\ RecountAfterCycle

\* a cycle that marked two messages of B, recounted as 0
C16_Witness ==
    /\ ev.kind = "unreadDone" /\ ev.task.origin = "cycle" /\ ev.task.peer = "B"
    /\ chatMounted /\ NoNewMessage(ev.task)
    /\ Cardinality(UnseenIds(ev.task)) = 2
    /\ chat.unreadCounts["B"] = 0

\* C17: when a create call succeeds the input is cleared, and a conversation
\* fetch for the selected contact and an unread recount are started at once.
C17_AfterSend ==
    (ev.kind = "sendDone" /\ chatMounted) =>
        /\ chat.newMessage = ""
        /\ \E t \in DOMAIN tasks :
                t.kind = "conv" /\ t.phase = "get" /\ t.peer = chat.selectedUser
        /\ Recounts("send") # {}

\* the setters of the view's state
Setters == {"setMessages", "setUnreadCounts", "setNewMessage", "setSending"}

\* C25: once the view is unmounted, the completion of a conversation fetch,
\* of an unread-count computation or of a create request calls no setter of
\* the view's state
C25_StaleResponseGuard == ~chatMounted => ev.flags \cap Setters = {}

\* C27: with a contact selected, every message of the displayed list has
\* that contact as its sender or its receiver
C27_DisplayedConversation ==
    (chatMounted /\ Committed /\ chatUser # Null /\ chat.selectedUser # Null)
        => \A m \in chat.messages :
               m.senderId = chat.selectedUser \/ m.receiverId = chat.selectedUser

\* the step is the rejection of a getConversation or markAsRead call of
\* fetchConversation
PollFailed == ev'.kind \in {"fetchFailed", "cycleAborted"}

C30_SendFailure ==
    /\ [][(ev'.kind = "sendFailed" /\ chatMounted) =>
              /\ chat'.newMessage = chat.newMessage
              /\ chat'.messages = chat.messages
              /\ chat'.unreadCounts = chat.unreadCounts
              /\ tasks' = Answered(tasks, ev'.task)
              /\ "alert" \in ev'.flags
              /\ ~chat'.sending]_vars
    /\ []((chatMounted /\ Committed /\ CreatesInFlight = 0) => ~view.sending)

\* a create request has failed: the typed text is still in the input
C30_Witness ==
    /\ ev.kind = "sendFailed" /\ chatMounted
    /\ chat.newMessage = " hi" /\ ~chat.sending
    /\ tasks = NoRequests

(***************************************************************************)
(* Claims on the session store and the route components                    *)
(***************************************************************************)
\* C21: whenever the session is resolved (loading is false) and the session
\* holds no user, each guarded route, as last rendered, is a redirect to
\* /login and not the route's content
C21_UnauthenticatedRedirect ==
    (authMounted /\ ~session.loading /\ ~isAuthenticated(session.user))
        => /\ routes.protected = "to /login"
           /\ routes.roleBased = "login"

\* C22: while the loading flag of the session store is true, ProtectedRoute,
\* RoleBasedRoute, LoginRoute and RegisterRoute each render the placeholder
\* and nothing else: no content, no access-denied state, no redirect
C22_LoadingPlaceholder ==
    session.loading
        => \A r \in DOMAIN routes : routes[r] = Placeholder

\* the routes are rendered before the mount effect has run, with a session
\* of an earlier visit in storage
C22_Witness ==
    /\ session.loading
    /\ HasStoredSession(storage)
    /\ routes = RenderRoutes(session, storage)

\* C23: right after login(u, t) the storage holds token t and the
\* serialization of u, and the session user is u; right after logout both
\* entries are absent and the session user is null; and in every state
\* isAuthenticated is true exactly when the session user is not null, in
\* which case both storage entries are present
C23_SessionPersistence ==
    /\ authEv.kind = "login"
          => /\ storage.token = authEv.token
             /\ storage.user = JSONstringify(authEv.user)
             /\ session.user = authEv.user
    /\ authEv.kind = "logout"
          => /\ storage.token = Null /\ ~storage.user.present
             /\ session.user = NoUser
    /\ isAuthenticated(session.user) <=> session.user # NoUser
    /\ isAuthenticated(session.user)
          => storage.token # Null /\ storage.user.present

\* a login that follows the logout of a session restored at startup
C23_Witness ==
    /\ authEv.kind = "login"
    /\ authEv.storage = NoStorage
    /\ isAuthenticated(session.user)
    /\ storage.token \in Tokens

\* what JSON.parse made of the user entry startup found
Restored == JSONparse(authEv.storage.user)

\* C24: a startup that finds a token and a parseable user entry sets the
\* session user to the parsed entry and leaves a verify call outstanding;
\* the failure of a verify call leaves the session user null and both
\* storage entries absent, with no exception escaping; a startup that finds
\* a token and an unparseable user entry leaves the same, and the session
\* resolved
C24_StartupReconciliation ==
    /\ (authEv.kind = "startup" /\ HasStoredSession(authEv.storage) /\ ~Restored.threw)
          => /\ session.user = Restored.value
             /\ verifying = {authEv.storage.token}
             /\ storage = authEv.storage
    /\ authEv.kind = "verifyFailed"
          => /\ session.user = NoUser
             /\ storage = NoStorage
             /\ fault = "none"
    /\ (authEv.kind = "startup" /\ HasStoredSession(authEv.storage) /\ Restored.threw)
          => /\ session.user = NoUser
             /\ storage = NoStorage
             /\ fault = "none"
             /\ ~session.loading

\* the verify call of a restored session has failed
C24_Witness ==
    /\ authEv.kind = "verifyFailed"
    /\ isAuthenticated(authEv.session.user)
    /\ authEv.storage.token = authEv.token

\* a startup has found a user entry that is no JSON text
C24_WitnessUnparseable ==
    /\ authEv.kind = "startup"
    /\ HasStoredSession(authEv.storage)
    /\ Restored.threw

\* C28: the failure of a verify call made for an earlier token, arriving
\* when the storage holds the token of a later login, leaves the storage
\* and the session user as they are
C28_StaleVerification ==
    (/\ authEv.kind = "verifyFailed"
     /\ authEv.storage.token \in Tokens
     /\ authEv.token # authEv.storage.token)
        => /\ storage = authEv.storage
           /\ session.user = authEv.session.user

(***************************************************************************)
(* Claims on the Users screen                                              *)
(***************************************************************************)
\* C26: no handleDelete invocation of the Users screen issues a delete
\* request for the current user's own account, nor one for a superadmin
\* account when the current user is not a superadmin
C26_UsersDeleteGuards ==
    (usLast.op = "handleDelete" /\ usLast.issued)
        => /\ usLast.target # usUser.id
           /\ usLast.rowRole = ROLES.SUPERADMIN => isSuperAdmin(usUser)

====
